---- MODULE Spec2Model ----
(***************************************************************************)
(* A model of the allcoder config toolkit: the deep-merge engine           *)
(* (src/src/merge.ts), the redaction engine (src/src/redact.ts), the key   *)
(* sorter (src/src/formats.ts) and the command handlers that drive them    *)
(* (src/src/cli.ts).                                                       *)
(*                                                                         *)
(* Documents are JavaScript values.  Objects and arrays live on a heap of  *)
(* cells and are handled by reference, so that aliasing and in-place       *)
(* writes of the code are visible in the model; strings that the code      *)
(* inspects (property keys, paths, patterns) are sequences of characters.  *)
(* Property keys range over ordinary own-property names: names that        *)
(* resolve on Object.prototype (such as "__proto__") are outside the       *)
(* model.                                                                  *)
(***************************************************************************)
EXTENDS Integers, Sequences, FiniteSets, TLC

VARIABLES
    pc,        \* position of the running call or command handler
    heap,      \* the object heap: a sequence of cells, addressed by index
    target,    \* mergeDeep: first argument, as a document
    source,    \* mergeDeep: second argument, as a document
    options,   \* mergeDeep: the MergeOptions argument; stringifyByFormat:
               \* the StringifyOptions argument
    tref,      \* mergeDeep: the value passed as target (scalar or reference)
    sref,      \* mergeDeep: the value passed as source (scalar or reference)
    result,    \* the value returned by the call (scalar or reference)
    files,     \* merge command: the content of each file argument, in order
    cmdopts,   \* merge command: the parsed command-line options
    acc,       \* merge command: the accumulator of the fold
    fileIdx,       \* merge command: index of the next file to merge
    stdout,    \* what the command wrote to standard output
    exitCode,  \* process.exitCode
    value,     \* redact, sortKeysDeep: the document argument
    ropts,     \* redact: the RedactOptions argument
    vref,      \* redact, sortKeysDeep: the value passed as value (scalar or
               \* reference)
    replRef,   \* redact: the value of opts.replacement (scalar or reference)
    lastIndex, \* redact: the lastIndex property of opts.keyRegex
    redacted,  \* redact: paths of the entries whose value the call replaced
    previous,  \* redact, sortKeysDeep: the document returned by the call
               \* before this one
    changed,   \* format command: the local flag of the --check loop
    written,   \* format command: indices of the files written back
    stderr,    \* format command: what the command wrote to standard error
    body,      \* POST /validate: the request body (docs and schema)
    results,   \* POST /validate: the results array
    errors,    \* POST /validate: the errors array
    status,    \* POST /validate: the status of the reply
    docIdx     \* POST /validate: index of the next doc of the loop

vars == <<pc, heap, target, source, options, tref, sref, result,
          files, cmdopts, acc, fileIdx, stdout, exitCode,
          value, ropts, vref, replRef, lastIndex, redacted, previous,
          changed, written, stderr, body, results, errors, status, docIdx>>

mergeVars == <<target, source, options, tref, sref>>
cmdVars == <<files, cmdopts, acc, fileIdx, stdout, exitCode>>
redactVars == <<value, ropts, vref, replRef, lastIndex, redacted, previous>>
formatVars == <<changed, written, stderr>>
apiVars == <<body, results, errors, status, docIdx>>

----------------------------------------------------------------------------
(* Document values *)

Null == [t |-> "null"]
Undefined == [t |-> "undefined"]
Bool(b) == [t |-> "bool", b |-> b]
Num(n) == [t |-> "num", n |-> n]
Str(s) == [t |-> "str", s |-> s]
SeqDoc(items) == [t |-> "seq", items |-> items]
MapDoc(entries) == [t |-> "map", entries |-> entries]
Entry(k, v) == [k |-> k, v |-> v]
Ref(a) == [t |-> "ref", a |-> a]

IsSeq(d) == d.t = "seq"
IsMap(d) == d.t = "map"
IsScalar(d) == d.t \in {"null", "undefined", "bool", "num", "str"}

\* the keys of a Mapping, as a set, and the value bound to a key
KeySet(d) == {d.entries[i].k : i \in 1..Len(d.entries)}
KeysOf(d) == [i \in 1..Len(d.entries) |-> d.entries[i].k]
Get(d, k) == LET i == CHOOSE j \in 1..Len(d.entries) : d.entries[j].k = k
             IN  d.entries[i].v

----------------------------------------------------------------------------
(* Property keys: the order in which a JavaScript object enumerates them *)

Digits == <<"0", "1", "2", "3", "4", "5", "6", "7", "8", "9">>
IsDigit(c) == \E i \in 1..10 : Digits[i] = c
DigitVal(c) == (CHOOSE i \in 1..10 : Digits[i] = c) - 1

RECURSIVE KeyNum(_)
KeyNum(k) == IF k = <<>> THEN 0
             ELSE 10 * KeyNum(SubSeq(k, 1, Len(k) - 1)) + DigitVal(k[Len(k)])

\* a canonical array index: "0", "7", "10", ... (no sign, no leading zero,
\* below 2^32 - 1; every number of up to nine digits is)
IsArrayIndex(k) ==
    /\ Len(k) \in 1..9
    /\ \A i \in 1..Len(k) : IsDigit(k[i])
    /\ (Len(k) > 1 => k[1] # "0")

HasProperty(entries, k) == \E i \in 1..Len(entries) : entries[i].k = k

GetProperty(entries, k) ==
    entries[CHOOSE i \in 1..Len(entries) : entries[i].k = k].v

\* where a new key is created in the enumeration order: array indices first,
\* ascending; every other key after them, in creation order
InsertAt(entries, k) ==
    IF IsArrayIndex(k)
    THEN 1 + Cardinality({i \in 1..Len(entries) :
                 IsArrayIndex(entries[i].k) /\ KeyNum(entries[i].k) < KeyNum(k)})
    ELSE Len(entries) + 1

\* out[k] = v on an ordinary object
SetProperty(entries, k, v) ==
    IF HasProperty(entries, k)
    THEN [i \in 1..Len(entries) |->
            IF entries[i].k = k THEN Entry(k, v) ELSE entries[i]]
    ELSE LET p == InsertAt(entries, k)
         IN  SubSeq(entries, 1, p - 1) \o <<Entry(k, v)>>
                 \o SubSeq(entries, p, Len(entries))

\* an entry list is in the order an object enumerates its keys
RECURSIVE Rebuild(_, _)
Rebuild(built, entries) ==
    IF entries = <<>> THEN built
    ELSE Rebuild(SetProperty(built, Head(entries).k, Head(entries).v), Tail(entries))

IsEnumerationOrder(entries) == Rebuild(<<>>, entries) = entries

----------------------------------------------------------------------------
(* The heap *)

Alloc(h, cell) == [h |-> Append(h, cell), v |-> Ref(Len(h) + 1)]

isArray(h, v) == v.t = "ref" /\ h[v.a].t = "seq"
isPlainObject(h, v) == v.t = "ref" /\ h[v.a].t = "map"

\* out[k] = v
assign(h, out, k, v) ==
    [h EXCEPT ![out.a] = [@ EXCEPT !.entries = SetProperty(@, k, v)]]

\* a parsed document placed on the heap as a tree of fresh cells
RECURSIVE Store(_, _)
RECURSIVE StoreAll(_, _)
Store(h, d) ==
    IF IsSeq(d)
    THEN LET r == StoreAll(h, d.items)
         IN  Alloc(r.h, [t |-> "seq", items |-> r.vs])
    ELSE IF IsMap(d)
    THEN LET r == StoreAll(h, [i \in 1..Len(d.entries) |-> d.entries[i].v])
         IN  Alloc(r.h, [t |-> "map", entries |->
                   [i \in 1..Len(d.entries) |-> Entry(d.entries[i].k, r.vs[i])]])
    ELSE [h |-> h, v |-> d]
StoreAll(h, ds) ==
    IF ds = <<>> THEN [h |-> h, vs |-> <<>>]
    ELSE LET r == Store(h, Head(ds))
             rest == StoreAll(r.h, Tail(ds))
         IN  [h |-> rest.h, vs |-> <<r.v>> \o rest.vs]

\* the document a value denotes: what a serializer writes for it
RECURSIVE Deref(_, _)
Deref(h, v) ==
    IF v.t # "ref" THEN v
    ELSE LET c == h[v.a] IN
         IF c.t = "seq"
         THEN SeqDoc([i \in 1..Len(c.items) |-> Deref(h, c.items[i])])
         ELSE MapDoc([i \in 1..Len(c.entries) |->
                        Entry(c.entries[i].k, Deref(h, c.entries[i].v))])

----------------------------------------------------------------------------
(* Strings: case mapping and the order of String.prototype.localeCompare *)

LowerLetters == <<"a", "b", "c", "d", "e", "f", "g", "h", "i", "j", "k", "l", "m",
                  "n", "o", "p", "q", "r", "s", "t", "u", "v", "w", "x", "y", "z">>
UpperLetters == <<"A", "B", "C", "D", "E", "F", "G", "H", "I", "J", "K", "L", "M",
                  "N", "O", "P", "Q", "R", "S", "T", "U", "V", "W", "X", "Y", "Z">>

IsUpper(c) == \E i \in 1..26 : UpperLetters[i] = c

\* one character of String.prototype.toLowerCase
LowerChar(c) ==
    IF IsUpper(c) THEN LowerLetters[CHOOSE i \in 1..26 : UpperLetters[i] = c] ELSE c

toLowerCase(str) == [i \in 1..Len(str) |-> LowerChar(str[i])]

\* the collation order of the characters keys are made of: blank and
\* punctuation, then digits, then letters
Collation == <<" ", "_", "-", ".", "[", "]">> \o Digits \o LowerLetters

\* primary weight of a character: its place in the collation, case ignored
Primary(c) == CHOOSE i \in 1..Len(Collation) : Collation[i] = LowerChar(c)

\* -1, 0, 1 by the first difference in primary weights, a proper prefix first
RECURSIVE ComparePrimary(_, _)
ComparePrimary(a, b) ==
    IF a = <<>> /\ b = <<>> THEN 0
    ELSE IF a = <<>> THEN -1
    ELSE IF b = <<>> THEN 1
    ELSE IF Primary(Head(a)) < Primary(Head(b)) THEN -1
    ELSE IF Primary(Head(a)) > Primary(Head(b)) THEN 1
    ELSE ComparePrimary(Tail(a), Tail(b))

\* equal letters: lower case sorts before upper case at the first difference
RECURSIVE CompareCase(_, _)
CompareCase(a, b) ==
    IF a = <<>> \/ b = <<>> THEN 0
    ELSE IF ~IsUpper(Head(a)) /\ IsUpper(Head(b)) THEN -1
    ELSE IF IsUpper(Head(a)) /\ ~IsUpper(Head(b)) THEN 1
    ELSE CompareCase(Tail(a), Tail(b))

\* a.localeCompare(b)
localeCompare(a, b) ==
    IF ComparePrimary(a, b) # 0 THEN ComparePrimary(a, b) ELSE CompareCase(a, b)

----------------------------------------------------------------------------
(* sortKeysDeep (src/src/formats.ts) *)

\* Object.entries(value).sort(([a], [b]) => a.localeCompare(b)): a stable sort
RECURSIVE InsertSorted(_, _)
InsertSorted(sorted, e) ==
    IF sorted = <<>> THEN <<e>>
    ELSE IF localeCompare(e.k, sorted[Len(sorted)].k) < 0
    THEN Append(InsertSorted(SubSeq(sorted, 1, Len(sorted) - 1), e), sorted[Len(sorted)])
    ELSE Append(sorted, e)

\* mutation: the entries are reversed instead of sorted
SortEntries_reversed(entries) ==
    [i \in 1..Len(entries) |-> entries[Len(entries) + 1 - i]]

RECURSIVE SortEntries(_)
SortEntries(entries) ==
    IF entries = <<>> THEN <<>>
    ELSE InsertSorted(SortEntries(SubSeq(entries, 1, Len(entries) - 1)),
                      entries[Len(entries)])

RECURSIVE sortKeysDeep(_, _)
RECURSIVE sortItems(_, _)
RECURSIVE sortInto(_, _, _)
sortKeysDeep(h, v) ==
    IF isArray(h, v)
    THEN LET r == sortItems(h, h[v.a].items)
         IN  Alloc(r.h, [t |-> "seq", items |-> r.vs])
    ELSE IF isPlainObject(h, v)
    THEN LET o == Alloc(h, [t |-> "map", entries |-> <<>>])
         IN  sortInto(o.h, o.v, SortEntries(h[v.a].entries))
    ELSE [h |-> h, v |-> v]

\* mutation: the elements of an array are put in reverse order
sortItems_reversed(h, items) ==
    IF items = <<>> THEN [h |-> h, vs |-> <<>>]
    ELSE LET r == sortKeysDeep(h, Head(items))
             rest == sortItems(r.h, Tail(items))
         IN  [h |-> rest.h, vs |-> rest.vs \o <<r.v>>]

\* value.map(sortKeysDeep)
sortItems(h, items) ==
    IF items = <<>> THEN [h |-> h, vs |-> <<>>]
    ELSE LET r == sortKeysDeep(h, Head(items))
             rest == sortItems(r.h, Tail(items))
         IN  [h |-> rest.h, vs |-> <<r.v>> \o rest.vs]

\* for (const [k, v] of sorted) out[k] = sortKeysDeep(v); return out
sortInto(h, out, entries) ==
    IF entries = <<>> THEN [h |-> h, v |-> out]
    ELSE LET r == sortKeysDeep(h, Head(entries).v)
             h2 == [r.h EXCEPT ![out.a] =
                        [@ EXCEPT !.entries = SetProperty(@, Head(entries).k, r.v)]]
         IN  sortInto(h2, out, Tail(entries))

\* stringifyByFormat: the document handed to the serializer
stringifyByFormat(h, v, sortKeys) ==
    IF sortKeys
    THEN LET r == sortKeysDeep(h, v) IN [h |-> r.h, doc |-> Deref(r.h, r.v)]
    ELSE [h |-> h, doc |-> Deref(h, v)]

----------------------------------------------------------------------------
(* redact (src/src/redact.ts) *)

\* an optional property of an options object
None == [has |-> FALSE]
Some(x) == [has |-> TRUE, val |-> x]

DEFAULT_KEYS ==
    << <<"p", "a", "s", "s", "w", "o", "r", "d">>,
       <<"p", "a", "s", "s">>,
       <<"s", "e", "c", "r", "e", "t">>,
       <<"t", "o", "k", "e", "n">>,
       <<"a", "p", "i", "K", "e", "y">>,
       <<"a", "p", "i", "k", "e", "y">>,
       <<"a", "u", "t", "h">>,
       <<"a", "u", "t", "h", "o", "r", "i", "z", "a", "t", "i", "o", "n">>,
       <<"k", "e", "y">>,
       <<"p", "r", "i", "v", "a", "t", "e", "K", "e", "y">>,
       <<"p", "r", "i", "v", "a", "t", "e", "_", "k", "e", "y">>,
       <<"c", "l", "i", "e", "n", "t", "_", "s", "e", "c", "r", "e", "t">> >>

REDACTED == Str("[REDACTED]")

\* path segments: a Mapping key or a Sequence index
KeySeg(k) == [k |-> k]
IdxSeg(i) == [i |-> i]
IsIdxSeg(seg) == DOMAIN seg = {"i"}

\* String(n) for an index n
RECURSIVE NumToStr(_)
NumToStr(n) ==
    IF n < 10 THEN <<Digits[n + 1]>>
    ELSE NumToStr(n \div 10) \o <<Digits[(n % 10) + 1]>>

SegToStr(seg) == IF IsIdxSeg(seg) THEN NumToStr(seg.i) ELSE seg.k

\* [...pathAcc].join(".")
RECURSIVE JoinDots(_)
JoinDots(path) ==
    IF path = <<>> THEN <<>>
    ELSE IF Len(path) = 1 THEN SegToStr(path[1])
    ELSE JoinDots(SubSeq(path, 1, Len(path) - 1)) \o <<".">> \o SegToStr(path[Len(path)])

\* String.prototype.trim
RECURSIVE TrimStart(_)
TrimStart(str) ==
    IF str # <<>> /\ Head(str) = " " THEN TrimStart(Tail(str)) ELSE str
RECURSIVE TrimEnd(_)
TrimEnd(str) ==
    IF str # <<>> /\ str[Len(str)] = " "
    THEN TrimEnd(SubSeq(str, 1, Len(str) - 1)) ELSE str
trim(str) == TrimEnd(TrimStart(str))

\* mutation: the keys are not lower-cased
RedactKeys_asWritten(opts) ==
    IF opts.keys.has THEN opts.keys.val ELSE DEFAULT_KEYS

\* const keys = (opts.keys ?? DEFAULT_KEYS).map((k) => k.toLowerCase())
RedactKeys(opts) ==
    LET given == IF opts.keys.has THEN opts.keys.val ELSE DEFAULT_KEYS
    IN  [i \in 1..Len(given) |-> toLowerCase(given[i])]

\* new Set((opts.paths ?? []).map((p) => p.trim()).filter(Boolean))
PathSet(opts) ==
    LET given == IF opts.paths.has THEN opts.paths.val ELSE <<>>
    IN  {trim(given[i]) : i \in 1..Len(given)} \ {<<>>}

\* mutation: opts.replacement || "[REDACTED]"
Replacement_orDefault(opts, given) ==
    IF opts.replacement.has /\ given \notin {Null, Undefined, Str("")}
    THEN given ELSE REDACTED

\* hasOwnProperty(opts, "replacement") ? opts.replacement : "[REDACTED]"
\* (given is the value of opts.replacement: a scalar or a reference)
Replacement(opts, given) ==
    IF opts.replacement.has THEN given ELSE REDACTED

\* keys.includes(k.toLowerCase())
includes(list, x) == \E i \in 1..Len(list) : list[i] = x

\* a literal alternative of the pattern matches str at offset i (from 0)
AltMatchesAt(re, alt, str, i) ==
    /\ i + Len(alt) <= Len(str)
    /\ LET piece == SubSeq(str, i + 1, i + Len(alt))
       IN  IF re.ignoreCase THEN toLowerCase(piece) = toLowerCase(alt)
           ELSE piece = alt

MatchesAt(re, str, i) ==
    \E a \in 1..Len(re.source) : AltMatchesAt(re, re.source[a], str, i)

\* where the first alternative that matches at offset i ends
MatchEnd(re, str, i) ==
    LET a == CHOOSE x \in 1..Len(re.source) :
                /\ AltMatchesAt(re, re.source[x], str, i)
                /\ \A y \in 1..(x - 1) : ~AltMatchesAt(re, re.source[y], str, i)
    IN  i + Len(re.source[a])

\* RegExp.prototype.test: a global pattern starts at lastIndex and moves it
test(re, li, str) ==
    LET start == IF re.global THEN li ELSE 0
        hits == {i \in start..Len(str) : MatchesAt(re, str, i)}
    IN  IF hits = {}
        THEN [matched |-> FALSE, li |-> IF re.global THEN 0 ELSE li]
        ELSE LET i == CHOOSE x \in hits : \A y \in hits : x <= y
             IN  [matched |-> TRUE,
                  li |-> IF re.global THEN MatchEnd(re, str, i) ELSE li]

\* const byKey, byRegex, byPath of one entry
byKey(c, k) == includes(c.keys, toLowerCase(k))
byRegex(c, li, k) ==
    IF c.keyRegex.has THEN test(c.keyRegex.val, li, k)
    ELSE [matched |-> FALSE, li |-> li]
byPath(c, pathAcc, k) == JoinDots(Append(pathAcc, KeySeg(k))) \in c.pathSet

\* walk returns the new heap, the value, the pattern's lastIndex, and the
\* paths of the entries it replaced
RECURSIVE walk(_, _, _, _, _)
RECURSIVE walkItems(_, _, _, _, _, _)
RECURSIVE walkEntries(_, _, _, _, _, _)
walk(h, v, pathAcc, c, li) ==
    IF isArray(h, v)
    THEN LET r == walkItems(h, h[v.a].items, 0, pathAcc, c, li)
             o == Alloc(r.h, [t |-> "seq", items |-> r.vs])
         IN  [h |-> o.h, v |-> o.v, li |-> r.li, red |-> r.red]
    ELSE IF isPlainObject(h, v)
    THEN LET o == Alloc(h, [t |-> "map", entries |-> <<>>])
         IN  walkEntries(o.h, o.v, h[v.a].entries, pathAcc, c, li)
    ELSE [h |-> h, v |-> v, li |-> li, red |-> {}]

\* mutation: the walked items are collected in reverse order
walkItems_reversed(h, items, idx, pathAcc, c, li) ==
    IF items = <<>> THEN [h |-> h, vs |-> <<>>, li |-> li, red |-> {}]
    ELSE LET r == walk(h, Head(items), Append(pathAcc, IdxSeg(idx)), c, li)
             rest == walkItems(r.h, Tail(items), idx + 1, pathAcc, c, r.li)
         IN  [h |-> rest.h, vs |-> rest.vs \o <<r.v>>, li |-> rest.li,
              red |-> r.red \cup rest.red]

\* v.map((item, idx) => walk(item, [...pathAcc, idx]))
walkItems(h, items, idx, pathAcc, c, li) ==
    IF items = <<>> THEN [h |-> h, vs |-> <<>>, li |-> li, red |-> {}]
    ELSE LET r == walk(h, Head(items), Append(pathAcc, IdxSeg(idx)), c, li)
             rest == walkItems(r.h, Tail(items), idx + 1, pathAcc, c, r.li)
         IN  [h |-> rest.h, vs |-> <<r.v>> \o rest.vs, li |-> rest.li,
              red |-> r.red \cup rest.red]

\* mutation: the replacement is walked like any other value, its own
\* selected entries masked with the default string
walkEntries_intoReplacement(h, out, entries, pathAcc, c, li) ==
    IF entries = <<>> THEN [h |-> h, v |-> out, li |-> li, red |-> {}]
    ELSE LET k == Head(entries).k
             val == Head(entries).v
             rx == byRegex(c, li, k)
         IN  IF byKey(c, k) \/ rx.matched \/ byPath(c, pathAcc, k)
             THEN LET w == walk(h, c.replacement, Append(pathAcc, KeySeg(k)),
                                [c EXCEPT !.replacement = REDACTED], rx.li)
                      rest == walkEntries(assign(w.h, out, k, w.v), out,
                                          Tail(entries), pathAcc, c, w.li)
                  IN  [rest EXCEPT !.red = @ \cup {Append(pathAcc, KeySeg(k))}]
             ELSE LET r == walk(h, val, Append(pathAcc, KeySeg(k)), c, rx.li)
                      rest == walkEntries(assign(r.h, out, k, r.v), out,
                                          Tail(entries), pathAcc, c, r.li)
                  IN  [rest EXCEPT !.red = @ \cup r.red]

\* mutation: only a value that is not an object is replaced, a Mapping or
\* Sequence under a selected key is walked
walkEntries_scalarsOnly(h, out, entries, pathAcc, c, li) ==
    IF entries = <<>> THEN [h |-> h, v |-> out, li |-> li, red |-> {}]
    ELSE LET k == Head(entries).k
             val == Head(entries).v
             rx == byRegex(c, li, k)
         IN  IF /\ byKey(c, k) \/ rx.matched \/ byPath(c, pathAcc, k)
                /\ val.t # "ref"
             THEN LET rest == walkEntries(assign(h, out, k, c.replacement), out,
                                          Tail(entries), pathAcc, c, rx.li)
                  IN  [rest EXCEPT !.red = @ \cup {Append(pathAcc, KeySeg(k))}]
             ELSE LET r == walk(h, val, Append(pathAcc, KeySeg(k)), c, rx.li)
                      rest == walkEntries(assign(r.h, out, k, r.v), out,
                                          Tail(entries), pathAcc, c, r.li)
                  IN  [rest EXCEPT !.red = @ \cup r.red]

\* for (const [k, val] of Object.entries(v)) { ... }; return out
walkEntries(h, out, entries, pathAcc, c, li) ==
    IF entries = <<>> THEN [h |-> h, v |-> out, li |-> li, red |-> {}]
    ELSE LET k == Head(entries).k
             val == Head(entries).v
             rx == byRegex(c, li, k)
         IN  IF byKey(c, k) \/ rx.matched \/ byPath(c, pathAcc, k)
             THEN LET rest == walkEntries(assign(h, out, k, c.replacement), out,
                                          Tail(entries), pathAcc, c, rx.li)
                  IN  [rest EXCEPT !.red = @ \cup {Append(pathAcc, KeySeg(k))}]
             ELSE LET r == walk(h, val, Append(pathAcc, KeySeg(k)), c, rx.li)
                      rest == walkEntries(assign(r.h, out, k, r.v), out,
                                          Tail(entries), pathAcc, c, r.li)
                  IN  [rest EXCEPT !.red = @ \cup r.red]

\* redact(value, opts); given is the value of opts.replacement and li the
\* lastIndex of opts.keyRegex when the call starts
redact(h, v, opts, given, li) ==
    walk(h, v, <<>>,
         [keys |-> RedactKeys(opts), keyRegex |-> opts.keyRegex,
          pathSet |-> PathSet(opts), replacement |-> Replacement(opts, given)],
         li)

----------------------------------------------------------------------------
(* mergeDeep (src/src/merge.ts) *)

\* mutation: the strategy defaults to "concat"
ArrayStrategy_defaultConcat(opts) ==
    IF opts.arrayStrategy = "unset" THEN "concat" ELSE opts.arrayStrategy

\* const { arrayStrategy = "replace" } = options
ArrayStrategy(opts) ==
    IF opts.arrayStrategy = "unset" THEN "replace" ELSE opts.arrayStrategy

\* mutation: [...source, ...target]
mergeArrays_sourceFirst(h, t, s, arrayStrategy) ==
    IF arrayStrategy = "concat"
    THEN Alloc(h, [t |-> "seq", items |-> h[s.a].items \o h[t.a].items])
    ELSE [h |-> h, v |-> s]

\* mutation: the two branches of the strategy test are exchanged
mergeArrays_inverted(h, t, s, arrayStrategy) ==
    IF arrayStrategy = "concat"
    THEN [h |-> h, v |-> s]
    ELSE Alloc(h, [t |-> "seq", items |-> h[t.a].items \o h[s.a].items])

\* both sides are arrays: [...target, ...source] under concat, else source
mergeArrays(h, t, s, arrayStrategy) ==
    IF arrayStrategy = "concat"
    THEN Alloc(h, [t |-> "seq", items |-> h[t.a].items \o h[s.a].items])
    ELSE [h |-> h, v |-> s]

\* mutation: const out = {}
spreadTarget_empty(h, t) == Alloc(h, [t |-> "map", entries |-> <<>>])

\* mutation: const out = target
spreadTarget_alias(h, t) == [h |-> h, v |-> t]

\* const out = { ...target }
spreadTarget(h, t) == Alloc(h, [t |-> "map", entries |-> h[t.a].entries])

RECURSIVE mergeDeep(_, _, _, _)
RECURSIVE mergeEntries(_, _, _, _)
\* mutation: target is kept when the shapes disagree
mergeDeep_keepTarget(h, t, s, opts) ==
    IF isArray(h, t) /\ isArray(h, s)
    THEN mergeArrays(h, t, s, ArrayStrategy(opts))
    ELSE IF isPlainObject(h, t) /\ isPlainObject(h, s)
    THEN LET o == spreadTarget(h, t)
         IN  mergeEntries(o.h, o.v, h[s.a].entries, opts)
    ELSE [h |-> h, v |-> t]

mergeDeep(h, t, s, opts) ==
    IF isArray(h, t) /\ isArray(h, s)
    THEN mergeArrays(h, t, s, ArrayStrategy(opts))
    ELSE IF isPlainObject(h, t) /\ isPlainObject(h, s)
    THEN LET o == spreadTarget(h, t)
         IN  mergeEntries(o.h, o.v, h[s.a].entries, opts)
    ELSE [h |-> h, v |-> s]

\* mutation: a colliding key is overwritten, not merged
mergeEntries_shallow(h, out, entries, opts) ==
    IF entries = <<>> THEN [h |-> h, v |-> out]
    ELSE mergeEntries(assign(h, out, Head(entries).k, Head(entries).v),
                      out, Tail(entries), opts)

\* for (const [k, v] of Object.entries(source)) { ... }; return out
mergeEntries(h, out, entries, opts) ==
    IF entries = <<>> THEN [h |-> h, v |-> out]
    ELSE LET k == Head(entries).k
             v == Head(entries).v
         IN  IF HasProperty(h[out.a].entries, k)
             THEN LET r == mergeDeep(h, GetProperty(h[out.a].entries, k), v, opts)
                  IN  mergeEntries(assign(r.h, out, k, r.v), out, Tail(entries), opts)
             ELSE mergeEntries(assign(h, out, k, v), out, Tail(entries), opts)

\* mergeDeep on documents: both arguments parsed onto a fresh heap, the
\* returned value read back as a document
MergeDoc(t, s, opts) ==
    LET a == Store(<<>>, t)
        b == Store(a.h, s)
        r == mergeDeep(b.h, a.v, b.v, opts)
    IN  Deref(r.h, r.v)

----------------------------------------------------------------------------
(* Variables of the operations that are not running *)

MergeIdle ==
    /\ target = Undefined /\ source = Undefined /\ options = Undefined
    /\ tref = Undefined /\ sref = Undefined

CmdIdle ==
    /\ files = <<>> /\ cmdopts = Undefined /\ acc = Undefined /\ fileIdx = 0
    /\ stdout = Undefined /\ exitCode = 0

RedactIdle ==
    /\ value = Undefined /\ ropts = Undefined /\ vref = Undefined
    /\ replRef = Undefined /\ lastIndex = 0 /\ redacted = {}
    /\ previous = Undefined

FormatIdle == changed = FALSE /\ written = {} /\ stderr = <<>>

ApiIdle ==
    /\ body = Undefined /\ results = <<>> /\ errors = <<>>
    /\ status = 0 /\ docIdx = 0

----------------------------------------------------------------------------
(* Bounded inputs of the merge engine *)

MaxLen == 2      \* longest Sequence of scalars
MaxDepth == 2    \* levels of Mappings around a flat Mapping or Sequence

KeyA == <<"a">>
KeyB == <<"b">>
MergeKeys == {KeyA, KeyB}

Atoms == {Num(1), Num(2)}
Scalars == Atoms \cup {Null}

SeqsOver(S, n) == UNION {[1..m -> S] : m \in 0..n}

\* lists of distinct keys, in an order an object can enumerate them
KeyOrders(K) ==
    {ks \in SeqsOver(K, Cardinality(K)) :
        /\ \A i, j \in 1..Len(ks) : i # j => ks[i] # ks[j]
        /\ IsEnumerationOrder([i \in 1..Len(ks) |-> Entry(ks[i], Null)])}

MapsOver(K, S) ==
    UNION {{MapDoc([i \in 1..Len(ks) |-> Entry(ks[i], vs[i])]) :
                vs \in [1..Len(ks) -> S]} : ks \in KeyOrders(K)}

Flat == {SeqDoc(s) : s \in SeqsOver(Atoms, MaxLen)} \cup MapsOver(MergeKeys, Atoms)

\* a flat document, alone or as the only element of a Sequence
Elems == Flat \cup {SeqDoc(<<d>>) : d \in Flat}

KeyWrap(S) == {MapDoc(<<Entry(KeyA, d)>>) : d \in S}

RECURSIVE Nested(_, _)
Nested(S, n) == IF n = 0 THEN S ELSE S \cup KeyWrap(Nested(S, n - 1))

MergeDocs == Scalars \cup Nested(Elems, MaxDepth)

MergeOptionsSet == {[arrayStrategy |-> a] : a \in {"unset", "replace", "concat"}}

----------------------------------------------------------------------------
(* A call of mergeDeep(target, source, options) *)

InitMerge ==
    /\ pc = "call"
    /\ FormatIdle /\ ApiIdle
    /\ target \in MergeDocs
    /\ source \in MergeDocs
    /\ options \in MergeOptionsSet
    /\ LET a == Store(<<>>, target)
           b == Store(a.h, source)
       IN  heap = b.h /\ tref = a.v /\ sref = b.v
    /\ result = Undefined
    /\ CmdIdle /\ RedactIdle

MergeCall ==
    /\ pc = "call"
    /\ LET r == mergeDeep(heap, tref, sref, options)
       IN  heap' = r.h /\ result' = r.v
    /\ pc' = "done"
    /\ UNCHANGED <<mergeVars, formatVars, apiVars, cmdVars, redactVars>>

NextMerge == MergeCall

SpecMerge == InitMerge /\ [][NextMerge]_vars

----------------------------------------------------------------------------
(* Reading documents along paths of Mapping keys *)

\* p can be followed from d through Mappings only
RECURSIVE MapPath(_, _)
MapPath(d, p) ==
    \/ p = <<>>
    \/ /\ IsMap(d)
       /\ Head(p) \in KeySet(d)
       /\ MapPath(Get(d, Head(p)), Tail(p))

RECURSIVE At(_, _)
At(d, p) == IF p = <<>> THEN d ELSE At(Get(d, Head(p)), Tail(p))

\* the value (scalar or reference) found at p from value v
RECURSIVE ValAt(_, _, _)
ValAt(h, v, p) ==
    IF p = <<>> THEN v
    ELSE ValAt(h, GetProperty(h[v.a].entries, Head(p)), Tail(p))

KeyPaths == SeqsOver(MergeKeys, MaxDepth + 1)

Returned == Deref(heap, result)

----------------------------------------------------------------------------
(* Claims about mergeDeep, checked under SpecMerge *)

\* C1: merging two Mappings gives a Mapping over exactly the union of the
\* keys; a key only in target keeps target's value, a key only in source
\* takes source's value, a key in both holds the merge of the two values.
C1_MergeOfMappings ==
    (pc = "done" /\ IsMap(target) /\ IsMap(source)) =>
        /\ IsMap(Returned)
        /\ KeySet(Returned) = KeySet(target) \cup KeySet(source)
        /\ Len(Returned.entries) = Cardinality(KeySet(Returned))
        /\ \A k \in KeySet(target) \ KeySet(source) :
              Get(Returned, k) = Get(target, k)
        /\ \A k \in KeySet(source) \ KeySet(target) :
              Get(Returned, k) = Get(source, k)
        /\ \A k \in KeySet(target) \cap KeySet(source) :
              Get(Returned, k) = MergeDoc(Get(target, k), Get(source, k), options)

\* a nested Mapping merged key by key, beside a colliding scalar
C1_Witness ==
    /\ pc = "done"
    /\ IsMap(target) /\ IsMap(source)
    /\ \E k \in KeySet(target) \cap KeySet(source) :
          /\ IsMap(Get(target, k)) /\ IsMap(Get(source, k))
          /\ KeySet(Get(target, k)) \ KeySet(Get(source, k)) # {}
          /\ KeySet(Get(source, k)) \ KeySet(Get(target, k)) # {}
          /\ Get(Returned, k) \notin {Get(target, k), Get(source, k)}

\* C2: two Sequences under 'replace' (or no strategy) merge to source itself,
\* at the root and wherever both documents reach them through Mappings.
C2_ReplaceReturnsSource ==
    (pc = "done" /\ options.arrayStrategy \in {"unset", "replace"}) =>
        \A p \in KeyPaths :
            (/\ MapPath(target, p) /\ MapPath(source, p)
             /\ IsSeq(At(target, p)) /\ IsSeq(At(source, p)))
            => /\ MapPath(Returned, p)
               /\ At(Returned, p) = At(source, p)
               /\ ValAt(heap, result, p) = ValAt(heap, sref, p)

C2_Witness ==
    /\ pc = "done"
    /\ options.arrayStrategy = "unset"
    /\ \E p \in KeyPaths :
          /\ Len(p) = 2
          /\ MapPath(target, p) /\ MapPath(source, p)
          /\ IsSeq(At(target, p)) /\ IsSeq(At(source, p))
          /\ Len(At(target, p).items) = 2 /\ Len(At(source, p).items) = 1
          /\ At(Returned, p) = At(source, p)

\* C3: two Sequences under 'concat' merge to target's elements followed by
\* source's elements, none dropped, de-duplicated or merged.
C3_ConcatAppends ==
    (pc = "done" /\ options.arrayStrategy = "concat") =>
        \A p \in KeyPaths :
            (/\ MapPath(target, p) /\ MapPath(source, p)
             /\ IsSeq(At(target, p)) /\ IsSeq(At(source, p)))
            => /\ MapPath(Returned, p)
               /\ IsSeq(At(Returned, p))
               /\ At(Returned, p).items = At(target, p).items \o At(source, p).items
               /\ Len(At(Returned, p).items)
                    = Len(At(target, p).items) + Len(At(source, p).items)

\* two Sequences with a common element, and with Mappings as elements
C3_Witness ==
    /\ pc = "done"
    /\ options.arrayStrategy = "concat"
    /\ IsSeq(target) /\ IsSeq(source)
    /\ target.items # <<>> /\ target = source
    /\ \/ IsMap(target.items[1])
       \/ Len(target.items) = 2 /\ target.items[1] # target.items[2]
    /\ Returned.items = target.items \o source.items

SameShape(t, s) == (IsSeq(t) /\ IsSeq(s)) \/ (IsMap(t) /\ IsMap(s))

\* C4: when the two sides are not both Sequences and not both Mappings, the
\* result is source itself, whatever the array strategy.
C4_MismatchReturnsSource ==
    (pc = "done" /\ ~SameShape(target, source)) =>
        /\ result = sref
        /\ Returned = source

C4_Witness ==
    /\ pc = "done"
    /\ options.arrayStrategy = "concat"
    /\ \/ IsSeq(target) /\ IsMap(source) /\ target.items # <<>>
       \/ IsScalar(target) /\ IsScalar(source) /\ target # source
    /\ Returned = source

\* C5: merging the empty Mapping into a Mapping d gives d, under every
\* options value; concatenating the empty Sequence to a Sequence s gives s.
C5_MergeIdentity ==
    /\ (pc = "done" /\ IsMap(target) /\ source = MapDoc(<<>>))
          => Returned = target
    /\ (pc = "done" /\ IsSeq(target) /\ source = SeqDoc(<<>>)
            /\ options.arrayStrategy = "concat")
          => Returned = target

C5_Witness ==
    /\ pc = "done"
    /\ \/ /\ IsMap(target) /\ source = MapDoc(<<>>)
          /\ \E k \in KeySet(target) : ~IsScalar(Get(target, k))
       \/ /\ IsSeq(target) /\ source = SeqDoc(<<>>)
          /\ options.arrayStrategy = "concat"
          /\ Len(target.items) = 2
    /\ Returned = target

\* C6: a call of mergeDeep leaves every object and array that existed before
\* the call as it was: target, source and all that is nested in them.
C6_InputsNotMutated ==
    [][pc = "call" => /\ Len(heap') >= Len(heap)
                      /\ SubSeq(heap', 1, Len(heap)) = heap
                      /\ Deref(heap', tref) = target
                      /\ Deref(heap', sref) = source]_vars

\* a merge that wrote keys into its output object, two levels deep
C6_Witness ==
    /\ pc = "done"
    /\ IsMap(target) /\ IsMap(source)
    /\ \E k \in KeySet(target) \cap KeySet(source) :
          /\ IsMap(Get(target, k)) /\ IsMap(Get(source, k))
          /\ Get(Returned, k) # Get(target, k)
    /\ Deref(heap, tref) = target
    /\ Deref(heap, sref) = source

----------------------------------------------------------------------------
(* The merge command (src/src/cli.ts): allcoder merge <files...> *)

MaxFiles == 3    \* most file arguments on the command line (at least one:
                 \* the argument <files...> is required)

\* the content of a file that cannot be read or that the parser rejects
Unparseable == [t |-> "unparseable"]

M1(k, v) == MapDoc(<<Entry(k, v)>>)
M2(k1, v1, k2, v2) == MapDoc(<<Entry(k1, v1), Entry(k2, v2)>>)

CmdDocs ==
    { Num(1),
      SeqDoc(<<Num(1)>>),
      SeqDoc(<<Num(2)>>),
      M1(KeyA, Num(2)),
      M2(KeyB, Num(1), KeyA, Num(1)),
      M1(KeyA, M1(KeyB, Num(1))),
      M1(KeyA, M2(KeyB, Num(2), KeyA, Num(1))),
      M1(KeyA, SeqDoc(<<Num(1)>>)),
      M2(KeyB, Num(2), KeyA, SeqDoc(<<Num(2)>>)) }

CmdFiles == CmdDocs \cup {Unparseable}

CmdOptions ==
    [array : {"replace", "concat"}, sortKeys : BOOLEAN, format : {"json", "undetected"}]

InitMergeCmd ==
    /\ pc = "start"
    /\ FormatIdle /\ ApiIdle
    /\ files \in {f \in SeqsOver(CmdFiles, MaxFiles) : Len(f) >= 1}
    /\ cmdopts \in CmdOptions
    /\ heap = <<>>
    /\ acc = Undefined /\ fileIdx = 0
    /\ stdout = Undefined /\ exitCode = 0
    /\ result = Undefined
    /\ MergeIdle /\ RedactIdle

\* the step at hand throws: too few files, no format, or a file that does
\* not parse
MergeCmdThrows ==
    \/ pc = "start" /\ Len(files) < 2
    \/ pc = "start" /\ cmdopts.format = "undetected"
    \/ pc = "start" /\ Len(files) >= 2 /\ files[1] = Unparseable
    \/ pc = "loop" /\ fileIdx <= Len(files) /\ files[fileIdx] = Unparseable

\* let acc = parseInput(await readFileUtf8(files[0]), fmt)
MergeCmdOpen ==
    /\ pc = "start" /\ ~MergeCmdThrows
    /\ LET r == Store(heap, files[1])
       IN  heap' = r.h /\ acc' = r.v
    /\ fileIdx' = 2
    /\ pc' = "loop"
    /\ UNCHANGED <<files, cmdopts, stdout, exitCode>>
    /\ UNCHANGED <<result, mergeVars, formatVars, apiVars, redactVars>>

\* mutation: the documents are merged the other way round
MergeCmdNext_swapped ==
    /\ pc = "loop" /\ fileIdx <= Len(files) /\ ~MergeCmdThrows
    /\ LET n == Store(heap, files[fileIdx])
           r == mergeDeep(n.h, n.v, acc, [arrayStrategy |-> cmdopts.array])
       IN  heap' = r.h /\ acc' = r.v
    /\ fileIdx' = fileIdx + 1
    /\ UNCHANGED <<pc, files, cmdopts, stdout, exitCode>>
    /\ UNCHANGED <<result, mergeVars, formatVars, apiVars, redactVars>>

\* const next = parseInput(...); acc = mergeDeep(acc, next, { arrayStrategy })
MergeCmdNext ==
    /\ pc = "loop" /\ fileIdx <= Len(files) /\ ~MergeCmdThrows
    /\ LET n == Store(heap, files[fileIdx])
           r == mergeDeep(n.h, acc, n.v, [arrayStrategy |-> cmdopts.array])
       IN  heap' = r.h /\ acc' = r.v
    /\ fileIdx' = fileIdx + 1
    /\ UNCHANGED <<pc, files, cmdopts, stdout, exitCode>>
    /\ UNCHANGED <<result, mergeVars, formatVars, apiVars, redactVars>>

\* process.stdout.write(stringifyByFormat(fmt, acc, { indent, sortKeys }))
MergeCmdWrite ==
    /\ pc = "loop" /\ fileIdx > Len(files)
    /\ LET r == stringifyByFormat(heap, acc, cmdopts.sortKeys)
       IN  heap' = r.h /\ stdout' = r.doc
    /\ pc' = "written"
    /\ UNCHANGED <<files, cmdopts, acc, fileIdx, exitCode>>
    /\ UNCHANGED <<result, mergeVars, formatVars, apiVars, redactVars>>

\* catch (err) { console.error(...); process.exitCode = 2 }
MergeCmdFail ==
    /\ MergeCmdThrows
    /\ exitCode' = 2
    /\ pc' = "failed"
    /\ UNCHANGED <<heap, files, cmdopts, acc, fileIdx, stdout>>
    /\ UNCHANGED <<result, mergeVars, formatVars, apiVars, redactVars>>

NextMergeCmd == MergeCmdOpen \/ MergeCmdNext \/ MergeCmdWrite \/ MergeCmdFail

SpecMergeCmd == InitMergeCmd /\ [][NextMergeCmd]_vars

\* two documents are equal when the order of keys is ignored
RECURSIVE SameDoc(_, _)
SameDoc(a, b) ==
    IF IsSeq(a) /\ IsSeq(b)
    THEN /\ Len(a.items) = Len(b.items)
         /\ \A i \in 1..Len(a.items) : SameDoc(a.items[i], b.items[i])
    ELSE IF IsMap(a) /\ IsMap(b)
    THEN /\ KeySet(a) = KeySet(b)
         /\ Len(a.entries) = Len(b.entries)
         /\ \A k \in KeySet(a) : SameDoc(Get(a, k), Get(b, k))
    ELSE a = b

\* mergeDeep(...mergeDeep(mergeDeep(D1, D2), D3)..., Dn) on documents
RECURSIVE FoldDocs(_, _)
FoldDocs(docs, opts) ==
    IF Len(docs) = 1 THEN docs[1]
    ELSE MergeDoc(FoldDocs(SubSeq(docs, 1, Len(docs) - 1), opts), docs[Len(docs)], opts)

\* C7: the merge command writes the left-to-right fold of its files under the
\* chosen array strategy (with --sort-keys, that document with its keys
\* reordered), and every scalar the last file holds at a path of Mapping keys
\* is at that path in the output.
C7_MergeCommandFolds ==
    pc = "written" =>
        LET folded == FoldDocs(files, [arrayStrategy |-> cmdopts.array])
            last == files[Len(files)]
        IN  /\ Len(files) >= 2
            /\ SameDoc(stdout, folded)
            /\ (~cmdopts.sortKeys => stdout = folded)
            /\ \A p \in KeyPaths :
                  (MapPath(last, p) /\ IsScalar(At(last, p)))
                  => (MapPath(stdout, p) /\ At(stdout, p) = At(last, p))

\* three files: the middle one sets a scalar that the last one overrides, and
\* the first one contributes a key that survives
C7_Witness ==
    /\ pc = "written"
    /\ Len(files) = 3
    /\ IsMap(files[1]) /\ IsMap(files[2]) /\ IsMap(files[3]) /\ IsMap(stdout)
    /\ KeyB \in KeySet(files[1]) /\ KeyB \notin KeySet(files[3])
    /\ KeyA \in KeySet(files[2]) /\ KeyA \in KeySet(files[3])
    /\ IsScalar(Get(files[3], KeyA))
    /\ Get(files[2], KeyA) # Get(files[3], KeyA)
    /\ Get(stdout, KeyA) = Get(files[3], KeyA)
    /\ KeyB \in KeySet(stdout)

----------------------------------------------------------------------------
(* Bounded inputs of the redaction engine *)

K_password == <<"p", "a", "s", "s", "w", "o", "r", "d">>
K_Password == <<"P", "a", "s", "s", "w", "o", "r", "d">>
K_pass == <<"p", "a", "s", "s">>
K_secret == <<"s", "e", "c", "r", "e", "t">>
K_token == <<"t", "o", "k", "e", "n">>
K_TOKEN == <<"T", "O", "K", "E", "N">>
K_apiKey == <<"a", "p", "i", "K", "e", "y">>
K_apikey == <<"a", "p", "i", "k", "e", "y">>
K_auth == <<"a", "u", "t", "h">>
K_authorization == <<"a", "u", "t", "h", "o", "r", "i", "z", "a", "t", "i", "o", "n">>
K_key == <<"k", "e", "y">>
K_privateKey == <<"p", "r", "i", "v", "a", "t", "e", "K", "e", "y">>
K_private_key == <<"p", "r", "i", "v", "a", "t", "e", "_", "k", "e", "y">>
K_client_secret == <<"c", "l", "i", "e", "n", "t", "_", "s", "e", "c", "r", "e", "t">>
K_ok == <<"o", "k">>
K_OK == <<"O", "K">>
K_app == <<"a", "p", "p">>
K_u == <<"u">>
K_secrets == <<"s", "e", "c", "r", "e", "t", "s">>
K_mySecret == <<"m", "y", "S", "e", "c", "r", "e", "t">>
K_passwords == <<"p", "a", "s", "s", "w", "o", "r", "d", "s">>
K_0 == <<"0">>
K_padded == <<" ", "k">>

\* keys probed one by one: the default names, case variants, near misses
ProbeKeys ==
    { K_password,
      K_Password,
      K_pass,
      K_secret,
      K_token,
      K_TOKEN,
      K_apiKey,
      K_apikey,
      K_auth,
      K_authorization,
      K_key,
      K_privateKey,
      K_private_key,
      K_client_secret,
      K_ok,
      K_secrets,
      K_mySecret,
      K_passwords }

RedactDocs ==
    {M1(k, Str("v")) : k \in ProbeKeys} \cup
    { Null, Str("v"), SeqDoc(<<>>), MapDoc(<<>>),
      M2(K_Password, Str("p"), K_ok, Num(1)),
      M2(K_password, Str("p"), K_app, M2(K_apiKey, Str("x"), K_ok, Num(1))),
      M2(K_token, Str("abc"), K_app, M1(K_secret, Str("def"))),
      M1(K_u, SeqDoc(<<M1(K_password, Str("p"))>>)),
      M1(K_u, M1(K_0, M1(K_password, Str("p")))),
      M2(K_secrets, Num(1), K_mySecret, Num(2)),
      SeqDoc(<<M1(K_secrets, Num(1)), M1(K_secrets, Num(2))>>),
      M1(K_secret, M2(K_token, Str("t"), K_ok, Num(1))),
      SeqDoc(<<M1(K_token, Str("t")), Num(1)>>),
      M1(K_ok, M1(K_ok, Num(1))),
      M2(K_padded, Str("v"), K_ok, Num(1)),
      M2(<<"u", ".", "0">>, Num(1), K_u, M1(K_0, Num(2))) }

\* new RegExp(pattern, flags): the pattern as its literal alternatives
RegExp(alternatives, i, g) ==
    [source |-> alternatives, ignoreCase |-> i, global |-> g]

RedactOptionsSet ==
    [ keys : {None, Some(<<>>), Some(<<K_token>>), Some(<<K_TOKEN, K_OK>>)},
      keyRegex : {None} \cup
                 {Some(RegExp(<<K_secret>>, i, g)) : i \in BOOLEAN, g \in BOOLEAN},
      paths : {None,
               Some(<<JoinDots(<<KeySeg(K_u), IdxSeg(0), KeySeg(K_password)>>)>>),
               Some(<<<<" ">> \o JoinDots(<<KeySeg(K_app), KeySeg(K_secret)>>) \o <<" ">>,
                      <<" ">>>>),
               Some(<<JoinDots(<<KeySeg(K_u), IdxSeg(0)>>), K_0, K_padded>>)},
      replacement : {None, Some(Null), Some(Str("")), Some(Undefined),
                     Some(M1(K_password, Num(1)))} ]

----------------------------------------------------------------------------
(* A call of redact(value, opts) *)

InitRedact ==
    /\ pc = "call"
    /\ FormatIdle /\ ApiIdle
    /\ value \in RedactDocs
    /\ ropts \in RedactOptionsSet
    /\ LET a == Store(<<>>, value)
           b == IF ropts.replacement.has THEN Store(a.h, ropts.replacement.val)
                ELSE [h |-> a.h, v |-> Undefined]
       IN  heap = b.h /\ vref = a.v /\ replRef = b.v
    /\ lastIndex = 0
    /\ redacted = {}
    /\ previous = Undefined
    /\ result = Undefined
    /\ MergeIdle /\ CmdIdle

RedactCall ==
    /\ pc = "call"
    /\ LET r == redact(heap, vref, ropts, replRef, lastIndex)
       IN  /\ heap' = r.h
           /\ result' = r.v
           /\ lastIndex' = r.li
           /\ redacted' = r.red
    /\ pc' = "done"
    /\ UNCHANGED <<value, ropts, vref, replRef, previous, mergeVars, formatVars, apiVars, cmdVars>>

NextRedact == RedactCall

SpecRedact == InitRedact /\ [][NextRedact]_vars

----------------------------------------------------------------------------
(* Reading documents along structural paths *)

\* the paths of all Mapping entries of d, each as a sequence of segments
RECURSIVE EntryPaths(_, _)
EntryPaths(d, path) ==
    IF IsSeq(d)
    THEN UNION {EntryPaths(d.items[i], Append(path, IdxSeg(i - 1))) :
                    i \in 1..Len(d.items)}
    ELSE IF IsMap(d)
    THEN UNION {{Append(path, KeySeg(d.entries[i].k))}
                  \cup EntryPaths(d.entries[i].v, Append(path, KeySeg(d.entries[i].k))) :
                    i \in 1..Len(d.entries)}
    ELSE {}

RECURSIVE HasSegPath(_, _)
HasSegPath(d, path) ==
    \/ path = <<>>
    \/ /\ IsIdxSeg(Head(path)) /\ IsSeq(d) /\ Head(path).i < Len(d.items)
       /\ HasSegPath(d.items[Head(path).i + 1], Tail(path))
    \/ /\ ~IsIdxSeg(Head(path)) /\ IsMap(d) /\ Head(path).k \in KeySet(d)
       /\ HasSegPath(Get(d, Head(path).k), Tail(path))

RECURSIVE DocAt(_, _)
DocAt(d, path) ==
    IF path = <<>> THEN d
    ELSE IF IsIdxSeg(Head(path)) THEN DocAt(d.items[Head(path).i + 1], Tail(path))
    ELSE DocAt(Get(d, Head(path).k), Tail(path))

\* the traversal reaches an entry unless an entry above it was replaced
Reached(path) == \A n \in 1..(Len(path) - 1) : SubSeq(path, 1, n) \notin redacted

LastKey(path) == path[Len(path)].k

\* the pattern matches the key somewhere, by its own flags
PatternMatches(re, k) == \E i \in 0..Len(k) : MatchesAt(re, k, i)

KeyCriterion(k) == includes(RedactKeys(ropts), toLowerCase(k))
RegexCriterion(k) == ropts.keyRegex.has /\ PatternMatches(ropts.keyRegex.val, k)
PathCriterion(path) == JoinDots(path) \in PathSet(ropts)

\* the replacement the options ask for, as a document
AskedReplacement == IF ropts.replacement.has THEN ropts.replacement.val ELSE REDACTED

----------------------------------------------------------------------------
(* Claims about redact, checked under SpecRedact *)

\* C8: an entry the traversal reaches has its value replaced if and only if
\* its key is in the key list (case ignored), or the key pattern matches its
\* key, or its full path is in the path list; its key is kept as written.
C8_RedactedIffAnyCriterion ==
    pc = "done" =>
        \A path \in EntryPaths(value, <<>>) :
            Reached(path) =>
                /\ HasSegPath(Returned, path)
                /\ path \in redacted <=>
                      \/ KeyCriterion(LastKey(path))
                      \/ RegexCriterion(LastKey(path))
                      \/ PathCriterion(path)
                /\ path \in redacted => DocAt(Returned, path) = AskedReplacement

\* the names the specification lists as the default key set
SpecDefaultKeys ==
    { <<"p", "a", "s", "s", "w", "o", "r", "d">>,
      <<"p", "a", "s", "s">>,
      <<"s", "e", "c", "r", "e", "t">>,
      <<"t", "o", "k", "e", "n">>,
      <<"a", "p", "i", "k", "e", "y">>,
      <<"a", "u", "t", "h">>,
      <<"a", "u", "t", "h", "o", "r", "i", "z", "a", "t", "i", "o", "n">>,
      <<"k", "e", "y">>,
      <<"p", "r", "i", "v", "a", "t", "e", "k", "e", "y">>,
      <<"p", "r", "i", "v", "a", "t", "e", "_", "k", "e", "y">>,
      <<"c", "l", "i", "e", "n", "t", "_", "s", "e", "c", "r", "e", "t">> }

\* C9: without supplied keys an entry is redacted by key exactly when its
\* lower-cased key is one of the eleven default names; with supplied keys
\* only those count, and an entry they leave alone is recursed into.
C9_DefaultKeySet ==
    pc = "done" =>
        \A path \in EntryPaths(value, <<>>) :
            (/\ Reached(path)
             /\ ~RegexCriterion(LastKey(path))
             /\ ~PathCriterion(path))
            => (path \in redacted <=>
                  IF ropts.keys.has
                  THEN \E i \in 1..Len(ropts.keys.val) :
                          toLowerCase(ropts.keys.val[i]) = toLowerCase(LastKey(path))
                  ELSE toLowerCase(LastKey(path)) \in SpecDefaultKeys)

\* the default keys at work on a nested document: password and app.apiKey
\* are replaced, app.ok is not
C9_Witness ==
    /\ pc = "done"
    /\ ~ropts.keys.has /\ ~ropts.keyRegex.has /\ ~ropts.paths.has
    /\ value = M2(K_password, Str("p"), K_app, M2(K_apiKey, Str("x"), K_ok, Num(1)))
    /\ redacted = {<<KeySeg(K_password)>>, <<KeySeg(K_app), KeySeg(K_apiKey)>>}
    /\ Returned = M2(K_password, REDACTED, K_app, M2(K_apiKey, REDACTED, K_ok, Num(1)))

\* C10: every replaced value is the replacement the options carry, falsy or
\* not, and the string "[REDACTED]" when they carry none.
C10_ReplacementHonored ==
    pc = "done" =>
        \A path \in redacted :
            /\ HasSegPath(Returned, path)
            /\ DocAt(Returned, path) =
                  IF ropts.replacement.has THEN ropts.replacement.val
                  ELSE Str("[REDACTED]")

\* redact({token:"abc", app:{secret:"def"}}, {keys:["token"], replacement:null})
C10_Witness ==
    /\ pc = "done"
    /\ ropts.keys = Some(<<K_token>>) /\ ropts.replacement = Some(Null)
    /\ ~ropts.keyRegex.has /\ ~ropts.paths.has
    /\ value = M2(K_token, Str("abc"), K_app, M1(K_secret, Str("def")))
    /\ Returned = M2(K_token, Null, K_app, M1(K_secret, Str("def")))

----------------------------------------------------------------------------
(* The redact command (src/src/cli.ts): allcoder redact [file] *)

\* a --key-regex argument: the literal alternatives it spells, or a text
\* that new RegExp rejects
Pattern(alternatives) == [valid |-> TRUE, alternatives |-> alternatives]
BadPattern == [valid |-> FALSE, alternatives |-> <<>>]

\* str.split(sep) for a one-character separator
RECURSIVE split(_, _)
split(str, sep) ==
    IF \A i \in 1..Len(str) : str[i] # sep THEN <<str>>
    ELSE LET i == CHOOSE x \in 1..Len(str) :
                    str[x] = sep /\ \A y \in 1..(x - 1) : str[y] # sep
         IN  <<SubSeq(str, 1, i - 1)>> \o split(SubSeq(str, i + 1, Len(str)), sep)

\* list.split(",").map((s) => s.trim()).filter(Boolean)
CommaList(str) ==
    LET parts == split(str, ",")
    IN  SelectSeq([i \in 1..Len(parts) |-> trim(parts[i])], LAMBDA x : x # <<>>)

\* opts.keys ? CommaList(opts.keys) : undefined  (the empty string is falsy)
ListOption(opt) ==
    IF opt.has /\ opt.val # <<>> THEN Some(CommaList(opt.val)) ELSE None

\* opts.keyRegex ? new RegExp(opts.keyRegex, "i") : undefined
RegexOption(opt) ==
    IF opt.has THEN Some(RegExp(opt.val.alternatives, TRUE, FALSE)) ELSE None

\* { keys, replacement: opts.replacement, paths, keyRegex }: the replacement
\* property is always present, undefined when --replacement was not given
CmdRedactOptions(o) ==
    [keys |-> ListOption(o.keys), keyRegex |-> RegexOption(o.keyRegex),
     paths |-> ListOption(o.paths),
     replacement |-> Some(IF o.replacement.has THEN o.replacement.val ELSE Undefined)]

\* the option values are texts: "token", " Token ,ok,", "u.0.password"
RedactCmdOptions ==
    [ keys : {None, Some(K_token),
              Some(<<" ">> \o <<"T", "o", "k", "e", "n">> \o <<" ", ",">> \o K_ok \o <<",">>)},
      keyRegex : {None, Some(Pattern(<<K_secret>>)),
                  Some(Pattern(<<K_TOKEN, K_secret>>)), Some(BadPattern)},
      paths : {None, Some(JoinDots(<<KeySeg(K_u), IdxSeg(0), KeySeg(K_password)>>))},
      replacement : {None, Some(Str("")), Some(Str("***"))},
      sortKeys : BOOLEAN,
      format : {"json", "undetected"} ]

InitRedactCmd ==
    /\ pc = "start"
    /\ FormatIdle /\ ApiIdle
    /\ files \in {<<d>> : d \in RedactDocs \cup {Unparseable}}
    /\ cmdopts \in RedactCmdOptions
    /\ heap = <<>>
    /\ acc = Undefined /\ fileIdx = 0
    /\ stdout = Undefined /\ exitCode = 0
    /\ result = Undefined
    /\ MergeIdle /\ RedactIdle

\* a step of the handler throws: no format, a file that does not parse, or a
\* pattern that does not compile
RedactCmdThrows ==
    \/ cmdopts.format = "undetected"
    \/ files[1] = Unparseable
    \/ cmdopts.keyRegex = Some(BadPattern)

\* the try block: parse, build the options, redact, serialize, write
RedactCmdRun ==
    /\ pc = "start" /\ ~RedactCmdThrows
    /\ LET o == CmdRedactOptions(cmdopts)
           d == Store(heap, files[1])
           r == redact(d.h, d.v, o, o.replacement.val, 0)
           w == stringifyByFormat(r.h, r.v, cmdopts.sortKeys)
       IN  /\ value' = files[1] /\ vref' = d.v
           /\ ropts' = o /\ replRef' = o.replacement.val
           /\ lastIndex' = r.li /\ redacted' = r.red
           /\ result' = r.v
           /\ heap' = w.h /\ stdout' = w.doc
    /\ pc' = "written"
    /\ UNCHANGED <<files, cmdopts, acc, fileIdx, exitCode, previous, mergeVars, formatVars, apiVars>>

\* catch (err) { console.error(...); process.exitCode = 2 }
RedactCmdFail ==
    /\ pc = "start" /\ RedactCmdThrows
    /\ exitCode' = 2
    /\ pc' = "failed"
    /\ UNCHANGED <<heap, files, cmdopts, acc, fileIdx, stdout>>
    /\ UNCHANGED <<result, mergeVars, formatVars, apiVars, redactVars>>

NextRedactCmd == RedactCmdRun \/ RedactCmdFail

SpecRedactCmd == InitRedactCmd /\ [][NextRedactCmd]_vars

\* C11: in the document the redact command hands to the serializer, every
\* redacted entry holds the string "[REDACTED]" when --replacement was not
\* given and the given value when it was.
C11_CliReplacementDefault ==
    pc = "written" =>
        \A path \in redacted :
            /\ HasSegPath(Returned, path)
            /\ DocAt(Returned, path) =
                  IF cmdopts.replacement.has THEN cmdopts.replacement.val
                  ELSE Str("[REDACTED]")

----------------------------------------------------------------------------
(* Claims about paths, patterns and state, checked under SpecRedact *)

\* the members of criteria.paths as the caller wrote them
PathMembers ==
    IF ropts.paths.has THEN {ropts.paths.val[i] : i \in 1..Len(ropts.paths.val)}
    ELSE {}

\* C12: a Mapping entry the traversal reaches whose dot-joined path equals a
\* member of the path list is replaced, whatever its key; an entry that no
\* key and no pattern selects is replaced only if its own path is a member.
C12_RedactByPath ==
    pc = "done" =>
        \A path \in EntryPaths(value, <<>>) :
            Reached(path) =>
                /\ JoinDots(path) \in PathMembers =>
                      /\ path \in redacted
                      /\ DocAt(Returned, path) = AskedReplacement
                /\ (/\ path \in redacted
                    /\ ~KeyCriterion(LastKey(path))
                    /\ ~RegexCriterion(LastKey(path)))
                   => JoinDots(path) \in PathMembers

\* the paths of all Sequence elements of d
RECURSIVE ElemPaths(_, _)
ElemPaths(d, path) ==
    IF IsSeq(d)
    THEN UNION {{Append(path, IdxSeg(i - 1))}
                  \cup ElemPaths(d.items[i], Append(path, IdxSeg(i - 1))) :
                    i \in 1..Len(d.items)}
    ELSE IF IsMap(d)
    THEN UNION {ElemPaths(d.entries[i].v, Append(path, KeySeg(d.entries[i].k))) :
                    i \in 1..Len(d.entries)}
    ELSE {}

\* a and b are the same kind of node with the same keys or the same length
SameNode(a, b) ==
    IF IsSeq(a) THEN IsSeq(b) /\ Len(b.items) = Len(a.items)
    ELSE IF IsMap(a) THEN IsMap(b) /\ KeySet(b) = KeySet(a)
    ELSE b = a

\* C13: a Sequence element the traversal reaches is replaced by the
\* replacement when its path (the Sequence's path and its index, dot-joined)
\* is a member of the path list, and is otherwise never replaced as a whole,
\* whatever the key list and the pattern are.
C13_SequenceElementByPath ==
    pc = "done" =>
        \A path \in ElemPaths(value, <<>>) :
            Reached(path) /\ path \notin redacted =>
                /\ HasSegPath(Returned, path)
                /\ IF JoinDots(path) \in PathMembers
                   THEN DocAt(Returned, path) = AskedReplacement
                   ELSE SameNode(DocAt(value, path), DocAt(Returned, path))

\* the pattern matches the key somewhere when letter case is ignored
MatchesIgnoringCase(re, k) == PatternMatches([re EXCEPT !.ignoreCase = TRUE], k)

\* C14: with a key pattern in the criteria, every entry the traversal reaches
\* whose key matches the pattern with letter case ignored is redacted,
\* whatever flags the pattern object carries.
C14_RegexIgnoresCase ==
    pc = "done" =>
        \A path \in EntryPaths(value, <<>>) :
            (/\ Reached(path)
             /\ ropts.keyRegex.has
             /\ MatchesIgnoringCase(ropts.keyRegex.val, LastKey(path)))
            => /\ path \in redacted
               /\ DocAt(Returned, path) = AskedReplacement

\* the value (scalar or reference) the returned value holds at a path
RECURSIVE RefAt(_, _, _)
RefAt(h, v, path) ==
    IF path = <<>> THEN v
    ELSE IF IsIdxSeg(Head(path))
    THEN RefAt(h, h[v.a].items[Head(path).i + 1], Tail(path))
    ELSE RefAt(h, GetProperty(h[v.a].entries, Head(path).k), Tail(path))

\* C15: the value of a redacted entry is the replacement itself, as supplied:
\* a replacement that is a Mapping with keys the criteria select comes out
\* with those keys and their values untouched, and nothing below a redacted
\* entry is redacted.
C15_ReplacementNotRecursed ==
    pc = "done" =>
        \A path \in redacted :
            /\ RefAt(heap, result, path) = Replacement(ropts, replRef)
            /\ Deref(heap, RefAt(heap, result, path)) = AskedReplacement
            /\ \A n \in 1..(Len(path) - 1) : SubSeq(path, 1, n) \notin redacted

\* redact({secret: {token: "t", ok: 1}}, {replacement: {password: 1}}): the
\* replacement's own password key is left alone
C15_Witness ==
    /\ pc = "done"
    /\ ~ropts.keys.has /\ ~ropts.keyRegex.has /\ ~ropts.paths.has
    /\ ropts.replacement = Some(M1(K_password, Num(1)))
    /\ value = M1(K_secret, M2(K_token, Str("t"), K_ok, Num(1)))
    /\ redacted = {<<KeySeg(K_secret)>>}
    /\ Returned = M1(K_secret, M1(K_password, Num(1)))

----------------------------------------------------------------------------
(* Two calls of redact in a row, with the same document and the same options
   object: the pattern object of the options lives on between the calls *)

\* the second call: redact(value, opts) again, the pattern's lastIndex as the
\* first call left it
RedactAgain ==
    /\ pc = "done"
    /\ previous' = Deref(heap, result)
    /\ LET r == redact(heap, vref, ropts, replRef, lastIndex)
       IN  /\ heap' = r.h
           /\ result' = r.v
           /\ lastIndex' = r.li
           /\ redacted' = r.red
    /\ pc' = "again"
    /\ UNCHANGED <<value, ropts, vref, replRef, mergeVars, formatVars, apiVars, cmdVars>>

NextRedactTwice == RedactCall \/ RedactAgain

SpecRedactTwice == InitRedact /\ [][NextRedactTwice]_vars

\* C16: a second call of redact with the same document and the same criteria
\* value returns a result equal to the first call's, and within one call two
\* reached entries with the same key that no path selects are both redacted
\* or both left alone.
C16_NoStateBetweenCalls ==
    /\ pc = "again" => Returned = previous
    /\ pc \in {"done", "again"} =>
          \A p, q \in EntryPaths(value, <<>>) :
              (/\ Reached(p) /\ Reached(q)
               /\ LastKey(p) = LastKey(q)
               /\ ~PathCriterion(p) /\ ~PathCriterion(q))
              => (p \in redacted <=> q \in redacted)

----------------------------------------------------------------------------
(* The key sorter (src/src/formats.ts): sortKeysDeep and stringifyByFormat *)

\* keys of the sorted documents: letters in both cases and keys that are
\* canonical array indices
SortKeys == {KeyA, KeyB, <<"B">>, <<"2">>, <<"1", "0">>}

\* parsed Mappings over every subset of the keys, in every order an object
\* can enumerate them
SortFlat == MapsOver(SortKeys, {Num(1)})

SortDocs ==
    SortFlat
    \cup {SeqDoc(<<f, Num(2)>>) : f \in SortFlat}
    \cup {M2(KeyB, f, KeyA, SeqDoc(<<Num(2), Num(1)>>)) : f \in SortFlat}
    \cup {Num(1), Null, SeqDoc(<<Num(2), Num(1)>>)}

InitSort ==
    /\ pc = "call"
    /\ FormatIdle /\ ApiIdle
    /\ value \in SortDocs
    /\ options \in [sortKeys : BOOLEAN]
    /\ LET a == Store(<<>>, value)
       IN  heap = a.h /\ vref = a.v
    /\ result = Undefined /\ previous = Undefined
    /\ target = Undefined /\ source = Undefined
    /\ tref = Undefined /\ sref = Undefined
    /\ ropts = Undefined /\ replRef = Undefined /\ lastIndex = 0 /\ redacted = {}
    /\ CmdIdle

\* sortKeysDeep(value)
SortCall ==
    /\ pc = "call"
    /\ LET r == sortKeysDeep(heap, vref)
       IN  heap' = r.h /\ result' = r.v
    /\ pc' = "sorted"
    /\ UNCHANGED <<mergeVars, formatVars, apiVars, cmdVars, redactVars>>

\* sortKeysDeep(sortKeysDeep(value)): the sorter applied to its own result
SortAgain ==
    /\ pc = "sorted"
    /\ previous' = Deref(heap, result)
    /\ LET r == sortKeysDeep(heap, result)
       IN  heap' = r.h /\ result' = r.v
    /\ pc' = "resorted"
    /\ UNCHANGED <<mergeVars, formatVars, apiVars, cmdVars, value, ropts, vref, replRef, lastIndex, redacted>>

\* stringifyByFormat(format, value, { sortKeys }): the document it serializes
Stringify ==
    /\ pc = "call"
    /\ LET r == stringifyByFormat(heap, vref, options.sortKeys)
       IN  heap' = r.h /\ stdout' = r.doc
    /\ pc' = "written"
    /\ UNCHANGED <<result, mergeVars, formatVars, apiVars, redactVars>>
    /\ UNCHANGED <<files, cmdopts, acc, fileIdx, exitCode>>

NextSort == SortCall \/ SortAgain \/ Stringify

SpecSort == InitSort /\ [][NextSort]_vars

\* C17: sorting a sorted document changes nothing, the order of the keys of
\* every Mapping included.
C17_SortIdempotent ==
    pc = "resorted" => Returned = previous

\* {b: {B: 1, a: 1, 10: 1}, a: [2, 1]} sorted once and sorted again
C17_Witness ==
    /\ pc = "resorted"
    /\ value = M2(KeyB, MapDoc(<<Entry(<<"1", "0">>, Num(1)), Entry(<<"B">>, Num(1)),
                                Entry(KeyA, Num(1))>>),
                  KeyA, SeqDoc(<<Num(2), Num(1)>>))
    /\ previous # value
    /\ Returned = previous

\* every Mapping of d lists its keys in strictly ascending order of the key
\* comparison
RECURSIVE KeysAscending(_)
KeysAscending(d) ==
    IF IsSeq(d) THEN \A i \in 1..Len(d.items) : KeysAscending(d.items[i])
    ELSE IF IsMap(d)
    THEN /\ \A i \in 1..(Len(d.entries) - 1) :
                localeCompare(d.entries[i].k, d.entries[i + 1].k) < 0
         /\ \A i \in 1..Len(d.entries) : KeysAscending(d.entries[i].v)
    ELSE TRUE

\* C18: the sorted document lists the keys of every Mapping in strictly
\* ascending order of the key comparison and keeps every Sequence in its
\* order; the serializer writes that order with sortKeys and the order of
\* its argument without.
C18_SortedAscending ==
    /\ pc = "sorted" => KeysAscending(Returned) /\ SameDoc(Returned, value)
    /\ pc = "written" =>
          IF options.sortKeys
          THEN KeysAscending(stdout) /\ SameDoc(stdout, value)
          ELSE stdout = value

----------------------------------------------------------------------------
(* The format command (src/src/cli.ts): allcoder format [files...] *)

\* a text: the document it spells and the layout it is written in
Text(layout, d) == [layout |-> layout, doc |-> d]

\* what the serializer writes: the document in its own layout (the indent
\* option at its default)
Canonical(d) == Text("indent2", d)

\* a text as the serializer writes it with its keys in ascending order
Formatted == Canonical(M2(KeyA, Num(1), KeyB, Num(1)))

\* a file: its content and whether its extension names a format
File(ext, text) == [ext |-> ext, text |-> text]

\* texts: formatted; formatted but for the order of the keys; in another
\* layout; not parseable
FormatTexts ==
    { Formatted,
      Canonical(M2(KeyB, Num(1), KeyA, Num(1))),
      Text("compact", M2(KeyA, Num(1), KeyB, Num(1))),
      Unparseable }

FormatFiles == {File("json", x) : x \in FormatTexts} \cup {File("unknown", Formatted)}

\* stdin is TRUE when no file argument was given; then files holds the one
\* text read from standard input, else the files the patterns expand to
FormatOptions ==
    [write : BOOLEAN, check : BOOLEAN, sortKeys : BOOLEAN,
     format : {"json", "none"}, stdin : BOOLEAN]

InitFormat ==
    /\ pc = "start"
    /\ ApiIdle
    /\ cmdopts \in FormatOptions
    /\ files \in IF cmdopts.stdin THEN {<<File("unknown", x)>> : x \in FormatTexts}
                ELSE SeqsOver(FormatFiles, MaxFiles)
    /\ heap = <<>>
    /\ acc = Undefined /\ fileIdx = 0
    /\ stdout = <<>> /\ stderr = <<>> /\ exitCode = 0
    /\ changed = FALSE /\ written = {}
    /\ result = Undefined
    /\ MergeIdle /\ RedactIdle

\* resolveFormat(opts.format, file) throws
NoFormat(f) == cmdopts.format = "none" /\ f.ext = "unknown"

\* stringifyByFormat(fmt, parseInput(text, fmt), { indent, sortKeys })
FormatOutput(h, text) ==
    LET d == Store(h, text.doc)
        w == stringifyByFormat(d.h, d.v, cmdopts.sortKeys)
    IN  [h |-> w.h, text |-> Canonical(w.doc)]

\* the step at hand throws
FormatThrows ==
    \/ /\ pc = "start" /\ cmdopts.stdin
       /\ \/ NoFormat(files[1])
          \/ files[1].text = Unparseable
          \/ ~cmdopts.check /\ cmdopts.write
    \/ pc = "start" /\ ~cmdopts.stdin /\ Len(files) > 1 /\ ~cmdopts.write
    \/ /\ pc = "loop" /\ fileIdx <= Len(files)
       /\ NoFormat(files[fileIdx]) \/ files[fileIdx].text = Unparseable

\* stdin mode: format the text read from standard input
FormatStdin ==
    /\ pc = "start" /\ cmdopts.stdin /\ ~FormatThrows
    /\ LET o == FormatOutput(heap, files[1].text)
       IN  /\ heap' = o.h
           /\ IF cmdopts.check
              THEN /\ exitCode' = IF o.text # files[1].text THEN 1 ELSE exitCode
                   /\ UNCHANGED stdout
              ELSE /\ stdout' = Append(stdout, o.text)
                   /\ UNCHANGED exitCode
    /\ pc' = "done"
    /\ UNCHANGED <<files, cmdopts, acc, fileIdx, result>>
    /\ UNCHANGED <<mergeVars, redactVars, formatVars, apiVars>>

\* const filesToProcess = await expandFiles(patterns); let changed = false
FormatExpand ==
    /\ pc = "start" /\ ~cmdopts.stdin /\ ~FormatThrows
    /\ changed' = FALSE
    /\ fileIdx' = 1
    /\ pc' = "loop"
    /\ UNCHANGED <<heap, files, cmdopts, acc, stdout, exitCode, result>>
    /\ UNCHANGED <<mergeVars, redactVars, written, stderr, apiVars>>

\* mutation: --check does not skip the write of --write
FormatFile_checkWrites ==
    /\ pc = "loop" /\ fileIdx <= Len(files) /\ ~FormatThrows
    /\ LET f == files[fileIdx]
           o == FormatOutput(heap, f.text)
           differs == o.text # f.text
       IN  /\ heap' = o.h
           /\ changed' = IF cmdopts.check THEN (changed \/ differs) ELSE changed
           /\ stderr' = IF cmdopts.check /\ differs
                        THEN Append(stderr, "needs formatting") ELSE stderr
           /\ IF cmdopts.write
              THEN /\ files' = IF differs THEN [files EXCEPT ![fileIdx].text = o.text]
                               ELSE files
                   /\ written' = IF differs THEN written \cup {fileIdx} ELSE written
                   /\ UNCHANGED stdout
              ELSE /\ stdout' = IF cmdopts.check THEN stdout ELSE Append(stdout, o.text)
                   /\ UNCHANGED <<files, written>>
    /\ fileIdx' = fileIdx + 1
    /\ UNCHANGED <<pc, cmdopts, acc, exitCode, result>>
    /\ UNCHANGED <<mergeVars, redactVars, apiVars>>

\* one turn of the loop over filesToProcess
FormatFile ==
    /\ pc = "loop" /\ fileIdx <= Len(files) /\ ~FormatThrows
    /\ LET f == files[fileIdx]
           o == FormatOutput(heap, f.text)
           differs == o.text # f.text
       IN  /\ heap' = o.h
           /\ IF cmdopts.check
              THEN /\ changed' = (changed \/ differs)
                   /\ stderr' = IF differs THEN Append(stderr, "needs formatting")
                                ELSE stderr
                   /\ UNCHANGED <<files, written, stdout>>
              ELSE IF cmdopts.write
              THEN /\ files' = IF differs THEN [files EXCEPT ![fileIdx].text = o.text]
                               ELSE files
                   /\ written' = IF differs THEN written \cup {fileIdx} ELSE written
                   /\ UNCHANGED <<changed, stderr, stdout>>
              ELSE /\ stdout' = Append(stdout, o.text)
                   /\ UNCHANGED <<changed, stderr, files, written>>
    /\ fileIdx' = fileIdx + 1
    /\ UNCHANGED <<pc, cmdopts, acc, exitCode, result>>
    /\ UNCHANGED <<mergeVars, redactVars, apiVars>>

\* if (opts.check && changed) process.exitCode = 1
FormatEnd ==
    /\ pc = "loop" /\ fileIdx > Len(files)
    /\ exitCode' = IF cmdopts.check /\ changed THEN 1 ELSE exitCode
    /\ pc' = "done"
    /\ UNCHANGED <<heap, files, cmdopts, acc, fileIdx, stdout, result>>
    /\ UNCHANGED <<mergeVars, redactVars, formatVars, apiVars>>

\* catch (err) { console.error(...); process.exitCode = 2 }
FormatFail ==
    /\ FormatThrows
    /\ stderr' = Append(stderr, "error")
    /\ exitCode' = 2
    /\ pc' = "failed"
    /\ UNCHANGED <<heap, files, cmdopts, acc, fileIdx, stdout, result>>
    /\ UNCHANGED <<mergeVars, redactVars, changed, written, apiVars>>

NextFormat == FormatStdin \/ FormatExpand \/ FormatFile \/ FormatEnd \/ FormatFail

SpecFormat == InitFormat /\ [][NextFormat]_vars

\* the formatted output of a text differs from the text
NeedsFormatting(text) == FormatOutput(<<>>, text).text # text

\* every file has a format and parses
AllReadable ==
    \A i \in 1..Len(files) : ~NoFormat(files[i]) /\ files[i].text # Unparseable

\* C19: format --check on one or more readable files, with or without
\* --write, ends with exit code 1 if the formatted output of some file
\* differs from the file's content and with no failure code if none does.
C19_CheckExitCode ==
    (/\ pc \in {"done", "failed"}
     /\ cmdopts.check /\ ~cmdopts.stdin
     /\ Len(files) >= 1 /\ AllReadable)
    => exitCode = IF \E i \in 1..Len(files) : NeedsFormatting(files[i].text)
                  THEN 1 ELSE 0

----------------------------------------------------------------------------
(* POST /validate (src/ts/src/api.ts) *)

MaxDocs == 3     \* most docs in one request

\* a submitted doc: its file name and what its content is like: it parses
\* and satisfies the schema, parses and violates it, or does not parse
Doc(filename, kind) == [filename |-> filename, kind |-> kind]

ApiDocs == {Doc(f, k) : f \in {"f", "g"}, k \in {"conforming", "violating", "malformed"}}

\* the schema of the request: none, one that compiles, one that does not
\* parse or compile
ApiBodies == [docs : SeqsOver(ApiDocs, MaxDocs), schema : {"none", "good", "bad"}]

InitValidate ==
    /\ pc = "start"
    /\ FormatIdle
    /\ body \in ApiBodies
    /\ results = <<>> /\ errors = <<>> /\ status = 0 /\ docIdx = 0
    /\ heap = <<>> /\ result = Undefined
    /\ MergeIdle /\ CmdIdle /\ RedactIdle

\* the schema does not parse or compile: reply 400
ValidateReject ==
    /\ pc = "start" /\ body.schema = "bad"
    /\ status' = 400
    /\ pc' = "replied"
    /\ UNCHANGED <<heap, result, body, results, errors, docIdx>>
    /\ UNCHANGED <<mergeVars, cmdVars, redactVars, formatVars>>

\* no schema, or validateFn = ajv.compile(schemaObj); results = [], errors = []
ValidateCompile ==
    /\ pc = "start" /\ body.schema # "bad"
    /\ results' = <<>> /\ errors' = <<>>
    /\ docIdx' = 1
    /\ pc' = "loop"
    /\ UNCHANGED <<heap, result, body, status>>
    /\ UNCHANGED <<mergeVars, cmdVars, redactVars, formatVars>>

\* mutation: a doc that does not parse gets a result and no error entry
ValidateDoc_silentCatch ==
    /\ pc = "loop" /\ docIdx <= Len(body.docs)
    /\ LET d == body.docs[docIdx]
       IN  IF d.kind = "malformed"
           THEN /\ results' = Append(results, [filename |-> d.filename, ok |-> FALSE])
                /\ UNCHANGED errors
           ELSE IF body.schema = "good" /\ d.kind = "violating"
           THEN /\ results' = Append(results, [filename |-> d.filename, ok |-> FALSE])
                /\ errors' = Append(errors, [filename |-> d.filename, error |-> "schema"])
           ELSE /\ results' = Append(results, [filename |-> d.filename, ok |-> TRUE])
                /\ UNCHANGED errors
    /\ docIdx' = docIdx + 1
    /\ UNCHANGED <<pc, heap, result, body, status>>
    /\ UNCHANGED <<mergeVars, cmdVars, redactVars, formatVars>>

\* one turn of for (const d of docs) { try { ... } catch { ... } }
ValidateDoc ==
    /\ pc = "loop" /\ docIdx <= Len(body.docs)
    /\ LET d == body.docs[docIdx]
       IN  IF d.kind = "malformed"
           THEN /\ results' = Append(results, [filename |-> d.filename, ok |-> FALSE])
                /\ errors' = Append(errors, [filename |-> d.filename, error |-> "parse"])
           ELSE IF body.schema = "good" /\ d.kind = "violating"
           THEN /\ results' = Append(results, [filename |-> d.filename, ok |-> FALSE])
                /\ errors' = Append(errors, [filename |-> d.filename, error |-> "schema"])
           ELSE /\ results' = Append(results, [filename |-> d.filename, ok |-> TRUE])
                /\ UNCHANGED errors
    /\ docIdx' = docIdx + 1
    /\ UNCHANGED <<pc, heap, result, body, status>>
    /\ UNCHANGED <<mergeVars, cmdVars, redactVars, formatVars>>

\* const status = results.every((r) => r.ok) ? 200 : 422; reply
ValidateReply ==
    /\ pc = "loop" /\ docIdx > Len(body.docs)
    /\ status' = IF \A i \in 1..Len(results) : results[i].ok THEN 200 ELSE 422
    /\ pc' = "replied"
    /\ UNCHANGED <<heap, result, body, results, errors, docIdx>>
    /\ UNCHANGED <<mergeVars, cmdVars, redactVars, formatVars>>

NextValidate == ValidateReject \/ ValidateCompile \/ ValidateDoc \/ ValidateReply

SpecValidate == InitValidate /\ [][NextValidate]_vars

\* a doc fails: it does not parse, or there is a schema and it violates it
DocFails(d) ==
    d.kind = "malformed" \/ (body.schema = "good" /\ d.kind = "violating")

\* the file names of the failing docs among the first n, in request order
FailingNames(n) ==
    LET first == SubSeq(body.docs, 1, n)
        failing == SelectSeq(first, DocFails)
    IN  [i \in 1..Len(failing) |-> failing[i].filename]

\* C20: every doc gets one result, in request order, whether or not docs
\* before it failed; errors holds one entry per failing doc and no other;
\* the reply is 200 if every result is ok and 422 if not; a schema that does
\* not parse or compile is answered with 400 and no doc is processed.
C20_ValidateAllDocs ==
    /\ pc = "loop" =>
          /\ Len(results) = docIdx - 1
          /\ [i \in 1..Len(errors) |-> errors[i].filename] = FailingNames(docIdx - 1)
    /\ (pc = "replied" /\ body.schema # "bad") =>
          /\ Len(results) = Len(body.docs)
          /\ \A i \in 1..Len(results) :
                /\ results[i].filename = body.docs[i].filename
                /\ results[i].ok = ~DocFails(body.docs[i])
          /\ [i \in 1..Len(errors) |-> errors[i].filename] = FailingNames(Len(body.docs))
          /\ status = IF \E i \in 1..Len(body.docs) : DocFails(body.docs[i])
                      THEN 422 ELSE 200
    /\ (pc = "replied" /\ body.schema = "bad") =>
          status = 400 /\ results = <<>> /\ errors = <<>> /\ docIdx = 0

\* a request whose second doc does not parse and whose third violates the
\* schema: three results, two errors, 422
C20_Witness ==
    /\ pc = "replied"
    /\ body.schema = "good"
    /\ body.docs = <<Doc("f", "conforming"), Doc("g", "malformed"), Doc("f", "violating")>>
    /\ [i \in 1..3 |-> results[i].ok] = <<TRUE, FALSE, FALSE>>
    /\ [i \in 1..Len(errors) |-> errors[i].filename] = <<"g", "f">>
    /\ status = 422

----------------------------------------------------------------------------
(* Claims about what the format command writes, checked under SpecFormat *)

----------------------------------------------------------------------------
(* Claims about redact as a transformation *)

\* the entries replaced on account of the path list member p alone
RedactedByPath(p) ==
    {path \in redacted : /\ ~KeyCriterion(LastKey(path))
                         /\ ~RegexCriterion(LastKey(path))
                         /\ JoinDots(path) = p}

\* C22: path matching is exact on the sequence of Mapping-key and
\* Sequence-index segments, so one member of the path list never replaces
\* entries at two different locations of a document, whatever the keys are
\* (keys that contain a dot and digit-string keys included).
C22_PathExactOnSegments ==
    pc = "done" => \A p \in PathSet(ropts) : Cardinality(RedactedByPath(p)) <= 1

\* C23: redact changes only the values of the entries it replaces: the
\* root and every node outside a replaced value is the same kind of node
\* with the same keys or the same length and, when a scalar or Null, the
\* same value; a scalar, Null or Sequence at the root is not replaced; the
\* input document is left as it was.
C23_OnlyRedactedValuesChange ==
    pc = "done" =>
        /\ Deref(heap, vref) = value
        /\ SameNode(value, Returned)
        /\ \A path \in EntryPaths(value, <<>>) \cup ElemPaths(value, <<>>) :
              (Reached(path) /\ path \notin redacted) =>
                  /\ HasSegPath(Returned, path)
                  /\ SameNode(DocAt(value, path), DocAt(Returned, path))

\* a Sequence at the root with one sensitive entry inside: the entry's value
\* is replaced, the Sequence, its order and the scalar beside it are kept
C23_Witness ==
    /\ pc = "done"
    /\ value = SeqDoc(<<M1(K_token, Str("t")), Num(1)>>)
    /\ redacted = {<<IdxSeg(0), KeySeg(K_token)>>}
    /\ Returned = SeqDoc(<<M1(K_token, REDACTED), Num(1)>>)
    /\ Deref(heap, vref) = value

----------------------------------------------------------------------------
(* mergeDeep(d, d, options): a document merged with itself *)

\* source is d again: the same object, or a second parse of the same text
InitMergeSelf ==
    /\ pc = "call"
    /\ FormatIdle /\ ApiIdle
    /\ target \in MergeDocs
    /\ source = target
    /\ options \in MergeOptionsSet
    /\ \E same \in BOOLEAN :
          LET a == Store(<<>>, target)
              b == IF same THEN a ELSE Store(a.h, source)
          IN  heap = b.h /\ tref = a.v /\ sref = b.v
    /\ result = Undefined
    /\ CmdIdle /\ RedactIdle

SpecMergeSelf == InitMergeSelf /\ [][NextMerge]_vars

\* d with every Sequence in it followed by itself
RECURSIVE DoubledEverywhere(_)
DoubledEverywhere(d) ==
    IF IsSeq(d)
    THEN LET items == [i \in 1..Len(d.items) |-> DoubledEverywhere(d.items[i])]
         IN  SeqDoc(items \o items)
    ELSE IF IsMap(d)
    THEN MapDoc([i \in 1..Len(d.entries) |->
                    Entry(d.entries[i].k, DoubledEverywhere(d.entries[i].v))])
    ELSE d

\* d with every Sequence that is not inside another Sequence followed by
\* itself
RECURSIVE DoubledOutermost(_)
DoubledOutermost(d) ==
    IF IsSeq(d) THEN SeqDoc(d.items \o d.items)
    ELSE IF IsMap(d)
    THEN MapDoc([i \in 1..Len(d.entries) |->
                    Entry(d.entries[i].k, DoubledOutermost(d.entries[i].v))])
    ELSE d

RECURSIVE HasNonEmptySeq(_)
HasNonEmptySeq(d) ==
    IF IsSeq(d) THEN d.items # <<>>
    ELSE IF IsMap(d) THEN \E i \in 1..Len(d.entries) : HasNonEmptySeq(d.entries[i].v)
    ELSE FALSE

\* C24 as stated: mergeDeep(d, d) under the replace strategy is d; under
\* concat every Sequence of d is doubled, so the result differs from d when
\* d contains a non-empty Sequence.
C24_SelfMergeDoublesEvery ==
    pc = "done" =>
        IF ArrayStrategy(options) = "concat"
        THEN /\ Returned = DoubledEverywhere(target)
             /\ HasNonEmptySeq(target) => Returned # target
        ELSE Returned = target

\* C24 amended: mergeDeep(d, d) under the replace strategy is d; under
\* concat every Sequence of d that is not inside another Sequence is
\* doubled, its elements taken over as they are, so the result differs from
\* d when d contains a non-empty Sequence.
C24_SelfMerge ==
    pc = "done" =>
        IF ArrayStrategy(options) = "concat"
        THEN /\ Returned = DoubledOutermost(target)
             /\ HasNonEmptySeq(target) => Returned # target
        ELSE Returned = target

\* a Mapping over a Sequence merged with itself under replace, source and
\* target being the same object
C24_Witness ==
    /\ pc = "done"
    /\ options.arrayStrategy = "replace"
    /\ tref = sref
    /\ target = MapDoc(<<Entry(KeyA, SeqDoc(<<Num(1), Num(2)>>))>>)
    /\ Returned = target

----------------------------------------------------------------------------
(* redact(redact(value, opts), opts): the result redacted again *)

\* the second call takes the first call's result as its document
RedactResult ==
    /\ pc = "done"
    /\ previous' = Deref(heap, result)
    /\ LET r == redact(heap, result, ropts, replRef, lastIndex)
       IN  /\ heap' = r.h
           /\ result' = r.v
           /\ lastIndex' = r.li
           /\ redacted' = r.red
    /\ pc' = "reredacted"
    /\ UNCHANGED <<value, ropts, vref, replRef, mergeVars, formatVars, apiVars, cmdVars>>

SpecRedactResult == InitRedact /\ [][RedactCall \/ RedactResult]_vars

\* C25: for every document and every criteria whose key pattern, if any,
\* keeps no state (no g flag), redacting the result of redact again with the
\* same criteria returns a document equal to that result, also when the
\* replacement is a Mapping with sensitive keys.
C25_RedactIdempotent ==
    (pc = "reredacted" /\ ~(ropts.keyRegex.has /\ ropts.keyRegex.val.global))
        => Returned = previous

\* the default keys and a Mapping replacement that has a sensitive key: the
\* second pass replaces the same two entries and leaves the replacement's
\* own password alone
C25_Witness ==
    /\ pc = "reredacted"
    /\ ~ropts.keys.has /\ ~ropts.keyRegex.has
    /\ ropts.replacement = Some(M1(K_password, Num(1)))
    /\ value = M2(K_password, Str("p"), K_app, M2(K_apiKey, Str("x"), K_ok, Num(1)))
    /\ redacted = {<<KeySeg(K_password)>>, <<KeySeg(K_app), KeySeg(K_apiKey)>>}
    /\ previous = M2(K_password, M1(K_password, Num(1)),
                     K_app, M2(K_apiKey, M1(K_password, Num(1)), K_ok, Num(1)))
    /\ Returned = previous

----------------------------------------------------------------------------
(* Claims about what sortKeysDeep leaves alone, checked under SpecSort *)

\* sortKeysDeep(d) on a document of its own
SortedForm(d) ==
    LET a == Store(<<>>, d)
        r == sortKeysDeep(a.h, a.v)
    IN  Deref(r.h, r.v)

\* C26: sortKeysDeep changes only key order: the result equals the document
\* when key order is ignored (same key set at every Mapping, same length and
\* element order at every Sequence, same scalars and Null), each key of a
\* Mapping at the root is bound to the sorted form of the value it had, and
\* the document passed in is left as it was.
C26_SortChangesOnlyKeyOrder ==
    pc = "sorted" =>
        /\ SameDoc(value, Returned)
        /\ IsMap(value) =>
              \A k \in KeySet(value) : Get(Returned, k) = SortedForm(Get(value, k))
        /\ Deref(heap, vref) = value

\* {b: {10: 1, B: 1, a: 1}, a: [2, 1]}: the keys change places, the Sequence
\* under a is kept as it is
C26_Witness ==
    /\ pc = "sorted"
    /\ value = M2(KeyB, MapDoc(<<Entry(<<"1", "0">>, Num(1)), Entry(<<"B">>, Num(1)),
                                Entry(KeyA, Num(1))>>),
                  KeyA, SeqDoc(<<Num(2), Num(1)>>))
    /\ Returned # value
    /\ Returned.entries[1] = Entry(KeyA, SeqDoc(<<Num(2), Num(1)>>))
    /\ Deref(heap, vref) = value

====
